---- MODULE Spec2Model ----
(***************************************************************************)
(* Address similarity engine (backend/similarity.py) and best-of-N         *)
(* candidate selection (backend/mapbox_client.py).                         *)
(*                                                                         *)
(* Text is a sequence of characters; a character is a one-element TLA+     *)
(* string, or a name for a character outside ASCII ("EACUTE" is U+00E9,    *)
(* "ACUTE" the combining mark U+0301, "EMDASH" U+2014, "ENDASH" U+2013,    *)
(* "FWA" the fullwidth capital A U+FF21, "TAB" U+0009).                    *)
(* Python's None is the record None; Some(s) wraps a str.                  *)
(* Floats are modelled as exact rationals <<numerator, denominator>>;      *)
(* round(x, 3) yields an integer number of thousandths.  At an exact       *)
(* decimal tie (x.xxx5) Python rounds the binary float, whose last bit     *)
(* decides; the model rounds the exact value to the even neighbour, so a   *)
(* rounded score of the model may differ from Python's by 0.001 there.     *)
(* postal's parse_address is a function of the normalized text, chosen     *)
(* freely among the parser outputs of the model, with no output for "".    *)
(***************************************************************************)
EXTENDS Integers, Sequences, FiniteSets, TLC

\* ------------------------------------------------------------ characters

LowerLetters ==
    <<"a","b","c","d","e","f","g","h","i","j","k","l","m",
      "n","o","p","q","r","s","t","u","v","w","x","y","z">>

UpperLetters ==
    <<"A","B","C","D","E","F","G","H","I","J","K","L","M",
      "N","O","P","Q","R","S","T","U","V","W","X","Y","Z">>

Digits == <<"0","1","2","3","4","5","6","7","8","9">>

\* Code point order of the characters of the model (sorted() in
\* token_set_ratio orders tokens by code point).
CodeOrder ==
    <<"TAB", " ", "#", ",", "-", ".", "/">> \o Digits \o UpperLetters
       \o <<"_">> \o LowerLetters \o <<"EACUTE", "ACUTE", "ENDASH", "EMDASH", "FWA">>

Range(f) == { f[i] : i \in DOMAIN f }

OrdOf == [c \in Range(CodeOrder) |-> CHOOSE i \in DOMAIN CodeOrder : CodeOrder[i] = c]

\* ord(c)
Ord(c) == OrdOf[c]

SpaceChars == {" ", "TAB"}
DigitChars == Range(Digits)
UpperChars == Range(UpperLetters)
WordChars ==
    Range(LowerLetters) \cup Range(UpperLetters) \cup Range(Digits)
        \cup {"_", "EACUTE", "FWA"}

None == [some |-> FALSE, val |-> << >>]
Some(s) == [some |-> TRUE, val |-> s]

\* str.isspace / regex \s
IsSpace(c) == c \in SpaceChars

\* str.isdigit
IsDigit(c) == c \in DigitChars

\* regex \w
IsWord(c) == c \in WordChars

\* unicodedata.combining(ch) # 0
IsCombining(c) == c = "ACUTE"

RECURSIVE LStrip(_)
LStrip(s) == IF s # << >> /\ IsSpace(Head(s)) THEN LStrip(Tail(s)) ELSE s

RECURSIVE RStrip(_)
RStrip(s) ==
    IF s # << >> /\ IsSpace(s[Len(s)]) THEN RStrip(SubSeq(s, 1, Len(s) - 1)) ELSE s

\* str.strip()
Strip(s) == RStrip(LStrip(s))

RECURSIVE Concat(_)
Concat(ss) == IF ss = << >> THEN << >> ELSE Head(ss) \o Concat(Tail(ss))

\* unicodedata.normalize("NFKC", s): the compatibility character FWA becomes
\* "A"; a letter followed by its combining mark is composed.
RECURSIVE NFKC(_)
NFKC(s) ==
    IF s = << >> THEN << >>
    ELSE IF Len(s) >= 2 /\ s[1] = "e" /\ s[2] = "ACUTE"
         THEN <<"EACUTE">> \o NFKC(SubSeq(s, 3, Len(s)))
    ELSE IF s[1] = "FWA" THEN <<"A">> \o NFKC(Tail(s))
    ELSE <<s[1]>> \o NFKC(Tail(s))

\* str.lower(), one character
LowerChar(c) ==
    IF c \in UpperChars
    THEN LowerLetters[CHOOSE i \in DOMAIN UpperLetters : UpperLetters[i] = c]
    ELSE c

Lower(s) == [i \in DOMAIN s |-> LowerChar(s[i])]

\* unicodedata.normalize("NFKD", ch), one character
NFKDChar(c) ==
    IF c = "EACUTE" THEN <<"e", "ACUTE">>
    ELSE IF c = "FWA" THEN <<"A">>
    ELSE <<c>>

\* strip_diacritics(s): the NFKD form without its combining characters
strip_diacritics(s) ==
    LET nkfd == Concat([i \in DOMAIN s |-> NFKDChar(s[i])])
    IN  SelectSeq(nkfd, LAMBDA ch : ~IsCombining(ch))

\* s.replace(em dash, "-").replace(en dash, "-")
ReplaceDashes(s) ==
    [i \in DOMAIN s |-> IF s[i] \in {"EMDASH", "ENDASH"} THEN "-" ELSE s[i]]

\* _KEEP_RE = [^\w\s,/\-]; _KEEP_RE.sub(" ", s)
KeepSub(s) ==
    [i \in DOMAIN s |->
        IF IsWord(s[i]) \/ IsSpace(s[i]) \/ s[i] \in {",", "/", "-"}
        THEN s[i] ELSE " "]

\* The length of the whitespace run that starts s.
RECURSIVE SpaceRun(_)
SpaceRun(s) == IF s # << >> /\ IsSpace(Head(s)) THEN 1 + SpaceRun(Tail(s)) ELSE 0

Drop(s, n) == SubSeq(s, n + 1, Len(s))

\* re.sub(r"\s*,\s*", ", ", s): every comma, with the whitespace on both
\* of its sides, becomes ", ".
RECURSIVE CommaSub(_)
CommaSub(s) ==
    IF s = << >> THEN << >>
    ELSE LET k == SpaceRun(s)
         IN  IF k < Len(s) /\ s[k + 1] = ","
             THEN LET rest == Drop(s, k + 1)
                  IN  <<",", " ">> \o CommaSub(Drop(rest, SpaceRun(rest)))
             ELSE IF k > 0 THEN SubSeq(s, 1, k) \o CommaSub(Drop(s, k))
             ELSE <<s[1]>> \o CommaSub(Tail(s))

\* _SPACE_RE.sub(" ", s): every whitespace run becomes one space.
RECURSIVE SpaceSub(_)
SpaceSub(s) ==
    IF s = << >> THEN << >>
    ELSE LET k == SpaceRun(s)
         IN  IF k > 0 THEN <<" ">> \o SpaceSub(Drop(s, k))
             ELSE <<s[1]>> \o SpaceSub(Tail(s))

\* _normalize without its last strip().
NormalizeNoFinalStripMut(x) ==
    LET s0 == Strip(IF x.some THEN x.val ELSE << >>)
    IN  IF s0 = << >> THEN << >>
        ELSE SpaceSub(CommaSub(KeepSub(ReplaceDashes(
                 strip_diacritics(Lower(NFKC(s0)))))))

\* _normalize(s); x is None or Some(str)
normalize(x) ==
    LET s0 == Strip(IF x.some THEN x.val ELSE << >>)
    IN  IF s0 = << >> THEN << >>
        ELSE Strip(SpaceSub(CommaSub(KeepSub(ReplaceDashes(
                 strip_diacritics(Lower(NFKC(s0))))))))


\* ------------------------------------------------------------- tokens

\* str.split(): the maximal runs of non-whitespace characters, in order.
RECURSIVE Split(_)
Split(s) ==
    LET t == LStrip(s)
    IN  IF t = << >> THEN << >>
        ELSE LET n == CHOOSE k \in 1..Len(t) :
                        /\ \A i \in 1..k : ~IsSpace(t[i])
                        /\ (k = Len(t) \/ IsSpace(t[k + 1]))
             IN  <<SubSeq(t, 1, n)>> \o Split(Drop(t, n))

\* " ".join(toks)
RECURSIVE Join(_)
Join(toks) ==
    IF toks = << >> THEN << >>
    ELSE IF Len(toks) = 1 THEN toks[1]
    ELSE toks[1] \o <<" ">> \o Join(Tail(toks))

\* info_level from s2 on: s2 is the text without punctuation
TokenLevel(s2) ==
    IF s2 = << >> THEN 0
    ELSE IF \E i \in DOMAIN s2 : IsDigit(s2[i]) THEN 2
    ELSE IF Len(Split(s2)) <= 1 THEN 1
    ELSE IF Len(Split(s2)) <= 3 THEN 2
    ELSE 3

\* info_level on the stripped text s
StrippedLevel(s) ==
    IF s = << >> THEN 0
    ELSE TokenLevel(Strip(SpaceSub(
            [i \in DOMAIN s |-> IF IsWord(s[i]) \/ IsSpace(s[i]) THEN s[i] ELSE " "])))

\* info_level(s); x is None or Some(str)
info_level(x) == IF ~x.some THEN 0 ELSE StrippedLevel(Strip(x.val))

\* _is_short_or_suspicious_road(s)
is_short_or_suspicious_road(s) ==
    LET t == Strip(s) IN IF t = << >> THEN TRUE ELSE Len(t) <= 3

\* _looks_like_postcode_fragment(token)
looks_like_postcode_fragment(token) ==
    LET t == Strip(token)
    IN  /\ t # << >>
        /\ \A i \in DOMAIN t : IsDigit(t[i])
        /\ 3 <= Len(t) /\ Len(t) <= 5

\* The choice of _clean_house_number looking at the last token only.
KeepFirstTokenLastOnlyMut(hn, toks) ==
    IF hn = << >> THEN << >>
    ELSE IF Len(toks) <= 1 THEN hn
    ELSE IF looks_like_postcode_fragment(toks[Len(toks)]) THEN toks[1]
    ELSE hn

\* _clean_house_number after the strip: hn is stripped, toks is hn.split()
KeepFirstToken(hn, toks) ==
    IF hn = << >> THEN << >>
    ELSE IF Len(toks) <= 1 THEN hn
    ELSE IF \E i \in 2..Len(toks) : looks_like_postcode_fragment(toks[i])
         THEN toks[1]
    ELSE hn

\* _clean_house_number(hn)
clean_house_number(hn) == KeepFirstToken(Strip(hn), Split(Strip(hn)))


\* ---------------------------------------------------------- arithmetic

RECURSIVE GCD(_, _)
GCD(m, n) == IF n = 0 THEN m ELSE GCD(n, m % n)

\* The rational n/d (d > 0, n >= 0) in lowest terms.
Rat(n, d) == LET g == GCD(n, d) IN <<n \div g, d \div g>>

Zero == Rat(0, 1)
One == Rat(1, 1)

RAdd(x, y) == Rat(x[1] * y[2] + y[1] * x[2], x[2] * y[2])
RSub(x, y) == Rat(x[1] * y[2] - y[1] * x[2], x[2] * y[2])
RMul(x, y) == Rat(x[1] * y[1], x[2] * y[2])
RDiv(x, y) == Rat(x[1] * y[2], x[2] * y[1])
RLess(x, y) == x[1] * y[2] < y[1] * x[2]
RMax(x, y) == IF RLess(x, y) THEN y ELSE x

\* round(x, 3), in thousandths; a tie goes to the even neighbour.
Round3(x) ==
    LET q == (x[1] * 1000) \div x[2]
        r == (x[1] * 1000) % x[2]
    IN  IF 2 * r < x[2] THEN q
        ELSE IF 2 * r > x[2] THEN q + 1
        ELSE IF q % 2 = 0 THEN q ELSE q + 1

\* --------------------------------------- rapidfuzz.fuzz.token_set_ratio

\* s < t in the order of Python's str comparison.
RECURSIVE LexLess(_, _)
LexLess(s, t) ==
    IF t = << >> THEN FALSE
    ELSE IF s = << >> THEN TRUE
    ELSE IF s[1] # t[1] THEN Ord(s[1]) < Ord(t[1])
    ELSE LexLess(Tail(s), Tail(t))

\* sorted(S)
RECURSIVE Sorted(_)
Sorted(S) ==
    IF S = {} THEN << >>
    ELSE LET m == CHOOSE x \in S : \A y \in S \ {x} : LexLess(x, y)
         IN  <<m>> \o Sorted(S \ {m})

\* One row of the longest-common-subsequence table: prev is the row of the
\* prefix before ch, acc the part of the new row built so far.
RECURSIVE LcsRow(_, _, _, _)
LcsRow(prev, ch, t, acc) ==
    LET j == Len(acc) + 1
    IN  IF j > Len(t) THEN acc
        ELSE LET up   == prev[j]
                 left == IF j = 1 THEN 0 ELSE acc[j - 1]
                 diag == IF j = 1 THEN 0 ELSE prev[j - 1]
                 v    == IF ch = t[j] THEN diag + 1
                         ELSE IF up >= left THEN up ELSE left
             IN  LcsRow(prev, ch, t, Append(acc, v))

RECURSIVE LcsRows(_, _, _)
LcsRows(s, t, prev) ==
    IF s = << >> THEN prev
    ELSE LcsRows(Tail(s), t, LcsRow(prev, Head(s), t, << >>))

\* The length of a longest common subsequence of s and t.
LCS(s, t) ==
    IF s = << >> \/ t = << >> THEN 0
    ELSE LcsRows(s, t, [j \in 1..Len(t) |-> 0])[Len(t)]

\* Indel.distance(s, t): insertions and deletions turning s into t.
IndelDistance(s, t) == Len(s) + Len(t) - 2 * LCS(s, t)

\* _norm_distance(dist, lensum), a score in 0..100
NormDistance(dist, lensum) ==
    IF lensum > 0 THEN Rat(100 * (lensum - dist), lensum) ELSE Rat(100, 1)

\* The scores of token_set_ratio without the ratio of the intersection
\* against s2's side.
SectRatiosOneSidedMut(diff_ab, diff_ba, sect_len) ==
    LET ab_len == Len(diff_ab)
        ba_len == Len(diff_ba)
        sep    == IF sect_len # 0 THEN 1 ELSE 0
        sect_ab_len == sect_len + sep + ab_len
        sect_ba_len == sect_len + sep + ba_len
        result == NormDistance(IndelDistance(diff_ab, diff_ba),
                               sect_ab_len + sect_ba_len)
        sect_ab_ratio == NormDistance(sep + ab_len, sect_len + sect_ab_len)
    IN  IF sect_len = 0 THEN result ELSE RMax(result, sect_ab_ratio)

\* The last part of token_set_ratio: diff_ab and diff_ba are the joined
\* sorted tokens only one side has, sect_len the length of the joined
\* sorted common tokens.  The result is the best of the ratio of
\* sect+diff_ab against sect+diff_ba and, when there are common tokens, of
\* the ratios of sect against each of the two.
SectRatios(diff_ab, diff_ba, sect_len) ==
    LET ab_len == Len(diff_ab)
        ba_len == Len(diff_ba)
        sep    == IF sect_len # 0 THEN 1 ELSE 0
        sect_ab_len == sect_len + sep + ab_len
        sect_ba_len == sect_len + sep + ba_len
        result == NormDistance(IndelDistance(diff_ab, diff_ba),
                               sect_ab_len + sect_ba_len)
        sect_ab_ratio == NormDistance(sep + ab_len, sect_len + sect_ab_len)
        sect_ba_ratio == NormDistance(sep + ba_len, sect_len + sect_ba_len)
    IN  IF sect_len = 0 THEN result
        ELSE RMax(result, RMax(sect_ab_ratio, sect_ba_ratio))

\* token_set_ratio on the two token sets
TokenSetScore(tokens_a, tokens_b) ==
    IF tokens_a = {} \/ tokens_b = {} THEN Zero
    ELSE IF /\ tokens_a \cap tokens_b # {}
            /\ (tokens_a \subseteq tokens_b \/ tokens_b \subseteq tokens_a)
         THEN Rat(100, 1)
    ELSE SectRatios(Join(Sorted(tokens_a \ tokens_b)),
                    Join(Sorted(tokens_b \ tokens_a)),
                    Len(Join(Sorted(tokens_a \cap tokens_b))))

\* fuzz.token_set_ratio(s1, s2), a score in 0..100 (rapidfuzz 3: no default
\* preprocessing of the two strings)
token_set_ratio(s1, s2) == TokenSetScore(Range(Split(s1)), Range(Split(s2)))

\* _string_fuzzy(a, b)
string_fuzzy(a, b) ==
    IF a = << >> \/ b = << >> THEN Zero
    ELSE RDiv(token_set_ratio(a, b), Rat(100, 1))

\* _fuzzy(a, b)
fuzzy(a, b) ==
    IF a = << >> \/ b = << >> THEN Zero
    ELSE RDiv(token_set_ratio(a, b), Rat(100, 1))

\* _exactish(a, b)
exactish(a, b) ==
    IF a = << >> \/ b = << >> THEN Zero
    ELSE IF a = b THEN One ELSE Zero


\* ------------------------------------------------------------- state

VARIABLES
    pc,         \* the call that is pending, or the call that has returned
    hist,       \* <<s, _normalize(s), _normalize(_normalize(s))>>, as far as computed
    hn,         \* argument of _clean_house_number
    cleaned,    \* its result
    a,          \* first argument of address_similarity (None or Some(str))
    b,          \* second argument of address_similarity
    postal,     \* postal.parser.parse_address on the normalized texts in play
    result,     \* address_similarity(a, b)
    result_rev, \* address_similarity(b, a)
    query,      \* argument of geocode_best_match
    response,   \* what the geocoding request yields
    best        \* result of geocode_best_match

vars == <<pc, hist, hn, cleaned, a, b, postal, result, result_rev, query, response, best>>

\* ------------------------------------------------- address_similarity

WeightLabels ==
    <<"house_number", "road", "postcode", "city",
      "state", "country", "house", "city_district">>

LabelSet == Range(WeightLabels)

\* weights, in hundredths
weights ==
    [house_number |-> 30, road |-> 35, postcode |-> 15, city |-> 10,
     state |-> 5, country |-> 5, house |-> 3, city_district |-> 2]

\* parse_address(text): the parser is a function of its input
parse_address(text) == postal[text]

\* _to_components(parsed): the values of each label, joined by spaces
to_components(parsed) ==
    LET labels == { parsed[i][2] : i \in DOMAIN parsed }
        ValuesOf(l) ==
            LET sel == SelectSeq(parsed, LAMBDA p : p[2] = l)
            IN  [i \in DOMAIN sel |-> sel[i][1]]
    IN  [l \in labels |-> Join(ValuesOf(l))]

\* comp.get(key, "")
Get(comp, key) == IF key \in DOMAIN comp THEN comp[key] ELSE << >>

\* The value of key that is compared: stripped, and cleaned for house_number.
Guarded(comp, key) ==
    IF key = "house_number" THEN clean_house_number(Strip(Get(comp, key)))
    ELSE Strip(Get(comp, key))

\* Whether the loop scores key: both sides have a value, and a road is not noise.
IsScored(comp_a, comp_b, key) ==
    /\ Strip(Get(comp_a, key)) # << >>
    /\ Strip(Get(comp_b, key)) # << >>
    /\ ~(key = "road" /\ (\/ is_short_or_suspicious_road(Strip(Get(comp_a, key)))
                          \/ is_short_or_suspicious_road(Strip(Get(comp_b, key)))))

\* The similarity s of a scored key with the compared values va and vb.
ScoreOf(key, va, vb) ==
    IF key \in {"house_number", "postcode"}
          /\ ~(exactish(va, vb) = Zero /\ key = "house_number")
    THEN exactish(va, vb)
    ELSE fuzzy(va, vb)

LabelScore(comp_a, comp_b, key) ==
    ScoreOf(key, Guarded(comp_a, key), Guarded(comp_b, key))

\* sum(weights[k] for k in keys), keys a set of weighted labels
RECURSIVE WeightSumFrom(_, _)
WeightSumFrom(keys, i) ==
    IF i > Len(WeightLabels) THEN Zero
    ELSE RAdd(IF WeightLabels[i] \in keys THEN Rat(weights[WeightLabels[i]], 100) ELSE Zero,
              WeightSumFrom(keys, i + 1))

WeightSum(keys) == WeightSumFrom(keys, 1)

\* weighted_sum after the loop over weights.items()
RECURSIVE WeightedSumFrom(_, _, _)
WeightedSumFrom(comp_a, comp_b, i) ==
    IF i > Len(WeightLabels) THEN Zero
    ELSE RAdd(IF IsScored(comp_a, comp_b, WeightLabels[i])
              THEN RMul(Rat(weights[WeightLabels[i]], 100),
                        LabelScore(comp_a, comp_b, WeightLabels[i]))
              ELSE Zero,
              WeightedSumFrom(comp_a, comp_b, i + 1))

\* common_keys: the keys of breakdown after the loop
CommonKeys(comp_a, comp_b) == { k \in LabelSet : IsScored(comp_a, comp_b, k) }

\* union_keys
UnionKeys(comp_a, comp_b) ==
    { k \in LabelSet : Get(comp_a, k) # << >> \/ Get(comp_b, k) # << >> }

\* normalized_similarity * coverage_ratio with 1.0 where the code has 0.0 for
\* "nothing to compare".
CoveredScoreDefaultOneMut(weighted_sum, common_weight_sum, union_weight_sum) ==
    RMul(IF RLess(Zero, common_weight_sum)
         THEN RDiv(weighted_sum, common_weight_sum) ELSE One,
         IF RLess(Zero, union_weight_sum)
         THEN RDiv(common_weight_sum, union_weight_sum) ELSE One)

\* normalized_similarity alone, without the coverage penalty.
CoveredScoreNoCoverageMut(weighted_sum, common_weight_sum, union_weight_sum) ==
    IF RLess(Zero, common_weight_sum)
    THEN RDiv(weighted_sum, common_weight_sum) ELSE Zero

\* normalized_similarity * coverage_ratio
CoveredScore(weighted_sum, common_weight_sum, union_weight_sum) ==
    RMul(IF RLess(Zero, common_weight_sum)
         THEN RDiv(weighted_sum, common_weight_sum) ELSE Zero,
         IF RLess(Zero, union_weight_sum)
         THEN RDiv(common_weight_sum, union_weight_sum) ELSE Zero)

\* component_score
ComponentScore(comp_a, comp_b) ==
    CoveredScore(WeightedSumFrom(comp_a, comp_b, 1),
                 WeightSum(CommonKeys(comp_a, comp_b)),
                 WeightSum(UnionKeys(comp_a, comp_b)))

\* w_fuzzy with the cutoff at level 0 instead of level 1.
FuzzyWeightStrictMut(lvl_a, lvl_b) ==
    IF (IF lvl_a <= lvl_b THEN lvl_a ELSE lvl_b) < 1 THEN Rat(5, 100) ELSE Rat(15, 100)

\* w_fuzzy from the two information levels
FuzzyWeight(lvl_a, lvl_b) ==
    IF (IF lvl_a <= lvl_b THEN lvl_a ELSE lvl_b) <= 1 THEN Rat(5, 100) ELSE Rat(15, 100)

\* w_fuzzy
WFuzzy(a_norm, b_norm) == FuzzyWeight(info_level(Some(a_norm)), info_level(Some(b_norm)))

\* final_score without the (1 - w_fuzzy) factor.
FinalScoreNoShrinkMut(component_score, full_fuzzy, w_fuzzy) ==
    RAdd(component_score, RMul(w_fuzzy, full_fuzzy))

\* final_score
FinalScore(component_score, full_fuzzy, w_fuzzy) ==
    RAdd(RMul(RSub(One, w_fuzzy), component_score), RMul(w_fuzzy, full_fuzzy))

\* The SimilarityResult: the rounded final score, the components and the
\* breakdown with the rounded score of each scored key and the diagnostics.
Result(comp_a, comp_b, component_score, full_fuzzy, w_fuzzy) ==
    [score |-> Round3(FinalScore(component_score, full_fuzzy, w_fuzzy)),
     a_components |-> comp_a,
     b_components |-> comp_b,
     breakdown |->
        [k \in CommonKeys(comp_a, comp_b) \cup {"component_score", "full_fuzzy", "w_fuzzy"} |->
            IF k = "component_score" THEN Round3(component_score)
            ELSE IF k = "full_fuzzy" THEN Round3(full_fuzzy)
            ELSE IF k = "w_fuzzy" THEN Round3(w_fuzzy)
            ELSE Round3(LabelScore(comp_a, comp_b, k))]]

\* address_similarity from the normalized texts and their components on.
Similarity(a_norm, b_norm, comp_a, comp_b) ==
    Result(comp_a, comp_b, ComponentScore(comp_a, comp_b),
           string_fuzzy(a_norm, b_norm), WFuzzy(a_norm, b_norm))

\* address_similarity(a, b); x and y are None or Some(str)
address_similarity(x, y) ==
    Similarity(normalize(Some(IF x.some THEN x.val ELSE << >>)),
               normalize(Some(IF y.some THEN y.val ELSE << >>)),
               to_components(parse_address(normalize(Some(IF x.some THEN x.val ELSE << >>)))),
               to_components(parse_address(normalize(Some(IF y.some THEN y.val ELSE << >>)))))


\* ------------------------------------------------ geocode_best_match

\* The matching characters SequenceMatcher(None, s, t) finds: the longest
\* common block, earliest in s and then earliest in t, then the same to the
\* left and to the right of it (find_longest_match, get_matching_blocks).
RECURSIVE MatchCount(_, _)
MatchCount(s, t) ==
    LET blocks == { m \in (1..Len(s)) \X (1..Len(t)) \X (1..Len(s)) :
                      /\ m[1] + m[3] - 1 <= Len(s)
                      /\ m[2] + m[3] - 1 <= Len(t)
                      /\ SubSeq(s, m[1], m[1] + m[3] - 1) = SubSeq(t, m[2], m[2] + m[3] - 1) }
    IN  IF blocks = {} THEN 0
        ELSE LET m == CHOOSE x \in blocks : \A y \in blocks :
                          \/ x[3] > y[3]
                          \/ x[3] = y[3] /\ x[1] < y[1]
                          \/ x[3] = y[3] /\ x[1] = y[1] /\ x[2] <= y[2]
             IN  m[3] + MatchCount(SubSeq(s, 1, m[1] - 1), SubSeq(t, 1, m[2] - 1))
                      + MatchCount(Drop(s, m[1] + m[3] - 1), Drop(t, m[2] + m[3] - 1))

\* difflib.SequenceMatcher(None, s, t).ratio()
SequenceRatio(s, t) ==
    IF Len(s) + Len(t) = 0 THEN One
    ELSE Rat(2 * MatchCount(s, t), Len(s) + Len(t))

\* full_addresses: the truthy full_address values of the features, in order
FullAddresses(features) ==
    LET kept == SelectSeq(features, LAMBDA f : f.some /\ f.val # << >>)
    IN  [i \in DOMAIN kept |-> kept[i].val]

\* The loop over full_addresses from index i on, with the best so far.
RECURSIVE PickBest(_, _, _, _, _)
PickBest(q_norm, full_addresses, i, best_addr, best_score) ==
    IF i > Len(full_addresses) THEN best_addr
    ELSE LET a_norm == normalize(Some(full_addresses[i]))
             score  == SequenceRatio(q_norm, a_norm)
         IN  IF RLess(best_score, score)
             THEN PickBest(q_norm, full_addresses, i + 1, Some(a_norm), score)
             ELSE PickBest(q_norm, full_addresses, i + 1, best_addr, best_score)

\* MapboxClient.geocode_best_match(query); resp is what the request yields
geocode_best_match(q, resp) ==
    IF ~resp.ok THEN None
    ELSE LET full_addresses == FullAddresses(resp.features)
         IN  IF full_addresses = << >> THEN None
             ELSE PickBest(normalize(Some(q)), full_addresses, 1, None, <<-1, 1>>)

\* ------------------------------------------------------------- inputs

MaxRawLen == 3
MaxHnTokens == 3
MaxFrags == 2
MaxAddrLen == 2
MaxFeatures == 2

\* All strings of at most n characters of C.
Strings(C, n) == UNION { [1..k -> C] : k \in 0..n }

\* All sequences of at most n elements of S.
SeqsUpTo(S, n) == UNION { [1..k -> S] : k \in 0..n }

NormChars ==
    {"e", "B", "1", " ", "TAB", ",", "-", ".", "EACUTE", "ACUTE", "EMDASH", "FWA"}

RawInputs == {None} \cup { Some(s) : s \in Strings(NormChars, MaxRawLen) }

HnTokens ==
    { <<"1">>, <<"1","2">>, <<"a">>, <<"1","2","-","a">>, <<"2","0","2">>,
      <<"1","0","1","4">>, <<"1","2","3","4","5">>, <<"1","2","3","4","5","6">> }

RECURSIVE JoinWith(_, _)
JoinWith(toks, sep) ==
    IF toks = << >> THEN << >>
    ELSE IF Len(toks) = 1 THEN toks[1]
    ELSE toks[1] \o sep \o JoinWith(Tail(toks), sep)

HnInputs ==
    { lead \o JoinWith(toks, sep) \o trail :
        lead \in {<< >>, <<" ">>}, trail \in {<< >>, <<" ">>},
        sep \in {<<" ">>, <<" ", "TAB">>},
        toks \in SeqsUpTo(HnTokens, MaxHnTokens) }

T_korea == <<"k","o","r","e","a">>
T_porto == <<"p","o","r","t","o">>
T_12az == <<"1","2"," ","a","z">>
T_1014 == <<"1","0","1","4">>
T_elm == <<"E","l","m"," ","S","t">>
T_york == <<"e","l","m"," ","s","t",","," ","y","o","r","k"," ","u","k">>

Texts ==
    { None, Some(<< >>), Some(<<" ">>), Some(T_korea), Some(T_porto),
      Some(T_12az), Some(T_1014), Some(T_elm), Some(T_york) }

\* (value, label) pairs a parser may emit, in emission order.
Fragments ==
    << <<<<"1","2">>, "house_number">>,
       <<<<"1","0","1","4">>, "house_number">>,
       <<<<"a","z">>, "road">>,
       <<<<"e","l","m"," ","s","t">>, "road">>,
       <<<<"y","o","r","k">>, "city">>,
       <<<<"4">>, "unit">> >>

\* The parser outputs of the model: at most MaxFrags of the fragments.
SubSeqOf(idx) ==
    LET sel == SelectSeq([i \in DOMAIN Fragments |-> i], LAMBDA i : i \in idx)
    IN  [j \in DOMAIN sel |-> Fragments[sel[j]]]

ParserOutputs ==
    { SubSeqOf(idx) : idx \in { S \in SUBSET DOMAIN Fragments : Cardinality(S) <= MaxFrags } }

\* The normalized form of each text, and the full-string fuzzy score of each
\* pair of texts.
NormTable == [x \in Texts |-> normalize(Some(IF x.some THEN x.val ELSE << >>))]

NormOf(x) == NormTable[x]

FullFuzzyTable == [p \in Texts \X Texts |-> string_fuzzy(NormTable[p[1]], NormTable[p[2]])]

GeoChars == {"a", "b", "A"}

Addresses == Strings(GeoChars, MaxAddrLen)

Responses ==
    {[ok |-> FALSE, features |-> << >>]} \cup
    { [ok |-> TRUE, features |-> fs] :
        fs \in SeqsUpTo({None} \cup { Some(s) : s \in Addresses }, MaxFeatures) }

NoResult == [score |-> 0, a_components |-> << >>, b_components |-> << >>, breakdown |-> << >>]

\* ------------------------------------------------------------ actions

InitNormalize ==
    /\ pc = "normalize"
    /\ hist \in { <<x>> : x \in RawInputs }
    /\ hn = << >> /\ cleaned = << >>
    /\ a = None /\ b = None /\ postal = << >>
    /\ result = NoResult /\ result_rev = NoResult
    /\ query = << >> /\ response = [ok |-> FALSE, features |-> << >>] /\ best = None

InitClean ==
    /\ pc = "clean"
    /\ hn \in HnInputs
    /\ hist = << >> /\ cleaned = << >>
    /\ a = None /\ b = None /\ postal = << >>
    /\ result = NoResult /\ result_rev = NoResult
    /\ query = << >> /\ response = [ok |-> FALSE, features |-> << >>] /\ best = None

\* The parser is a function: one output per normalized text, none for "".
InitSimilarity ==
    /\ pc = "similarity"
    /\ a \in Texts /\ b \in Texts
    /\ postal \in [{NormOf(a), NormOf(b)} -> ParserOutputs]
    /\ << >> \in DOMAIN postal => postal[<< >>] = << >>
    /\ hist = << >> /\ hn = << >> /\ cleaned = << >>
    /\ result = NoResult /\ result_rev = NoResult
    /\ query = << >> /\ response = [ok |-> FALSE, features |-> << >>] /\ best = None

InitGeocode ==
    /\ pc = "geocode"
    /\ query \in Addresses
    /\ response \in Responses
    /\ hist = << >> /\ hn = << >> /\ cleaned = << >>
    /\ a = None /\ b = None /\ postal = << >>
    /\ result = NoResult /\ result_rev = NoResult
    /\ best = None

Init == InitNormalize \/ InitClean \/ InitSimilarity \/ InitGeocode

\* _normalize applied to the last text of hist
Normalize ==
    /\ pc = "normalize"
    /\ hist' = Append(hist, Some(normalize(hist[Len(hist)])))
    /\ pc' = IF Len(hist) >= 2 THEN "normalized" ELSE "normalize"
    /\ UNCHANGED <<hn, cleaned, a, b, postal, result, result_rev, query, response, best>>

\* _clean_house_number(hn)
CleanHouseNumber ==
    /\ pc = "clean"
    /\ cleaned' = clean_house_number(hn)
    /\ pc' = "cleaned"
    /\ UNCHANGED <<hist, hn, a, b, postal, result, result_rev, query, response, best>>

\* address_similarity(a, b)
AddressSimilarity ==
    /\ pc = "similarity"
    /\ result' = address_similarity(a, b)
    /\ pc' = "similarity_rev"
    /\ UNCHANGED <<hist, hn, cleaned, a, b, postal, result_rev, query, response, best>>

\* address_similarity(b, a)
AddressSimilarityRev ==
    /\ pc = "similarity_rev"
    /\ result_rev' = address_similarity(b, a)
    /\ pc' = "compared"
    /\ UNCHANGED <<hist, hn, cleaned, a, b, postal, result, query, response, best>>

\* geocode_best_match(query)
GeocodeBestMatch ==
    /\ pc = "geocode"
    /\ best' = geocode_best_match(query, response)
    /\ pc' = "geocoded"
    /\ UNCHANGED <<hist, hn, cleaned, a, b, postal, result, result_rev, query, response>>

NextNormalize == Normalize
NextClean == CleanHouseNumber
NextHouseNumber == CleanHouseNumber \/ AddressSimilarity \/ AddressSimilarityRev
NextSimilarity == AddressSimilarity \/ AddressSimilarityRev
NextGeocode == GeocodeBestMatch

Next == Normalize \/ CleanHouseNumber \/ AddressSimilarity \/ AddressSimilarityRev
           \/ GeocodeBestMatch

Spec == Init /\ [][Next]_vars
SpecNormalize == InitNormalize /\ [][NextNormalize]_vars
SpecClean == InitClean /\ [][NextClean]_vars
SpecHouseNumber == (InitClean \/ InitSimilarity) /\ [][NextHouseNumber]_vars
SpecSimilarity == InitSimilarity /\ [][NextSimilarity]_vars
SpecGeocode == InitGeocode /\ [][NextGeocode]_vars


\* ------------------------------------------------------------- claims

\* address_similarity(a, b) has returned.
Compared == pc \in {"similarity_rev", "compared"}

\* The input is absent, empty or made of whitespace only.
BlankInput(x) == ~x.some \/ \A i \in DOMAIN x.val : x.val[i] \in {" ", "TAB"}

\* The weighted labels the breakdown of r scores.
ScoredLabels(r) == DOMAIN r.breakdown \cap LabelSet

\* The weighted labels with a non-empty value on either side of r.
PresentLabels(r) ==
    { k \in LabelSet : Get(r.a_components, k) # << >> \/ Get(r.b_components, k) # << >> }

\* The components without the label key.
Without(comp, key) == [k \in DOMAIN comp \ {key} |-> comp[k]]

\* The number of maximal runs of word characters of s, and whether s has a digit.
WordRuns(s) ==
    Cardinality({ i \in DOMAIN s : IsWord(s[i]) /\ (i = 1 \/ ~IsWord(s[i - 1])) })

HasDigit(s) == \E i \in DOMAIN s : s[i] \in DigitChars

\* C1: after address_similarity returns, for every pair of inputs and every
\* parser output, the score and every entry of the breakdown (scored labels,
\* component_score, full_fuzzy, w_fuzzy) lie in [0, 1] (0..1000 thousandths).
C1_ScoreInUnitInterval ==
    Compared =>
        /\ result.score \in 0..1000
        /\ \A k \in DOMAIN result.breakdown : result.breakdown[k] \in 0..1000

C1_Witness ==
    /\ Compared
    /\ result.score \notin {0, 1000}
    /\ \E k \in ScoredLabels(result) : result.breakdown[k] \notin {0, 1000}
    /\ result.breakdown["component_score"] \notin {0, 1000}
    /\ result.breakdown["full_fuzzy"] \notin {0, 1000}

\* C2: identity: for a non-empty text s whose parse has a weighted label,
\* address_similarity(s, s).score is 1.0, whatever labels the parser emits.
C2_Identity ==
    (Compared /\ a = b /\ NormOf(a) # << >> /\ PresentLabels(result) # {})
        => result.score = 1000

\* C3: symmetry: address_similarity(a, b) and address_similarity(b, a) have
\* the same score and the same breakdown (per-label entries, component_score,
\* full_fuzzy, w_fuzzy).
C3_Symmetry ==
    pc = "compared" =>
        /\ result.score = result_rev.score
        /\ result.breakdown = result_rev.breakdown

C3_Witness ==
    /\ pc = "compared"
    /\ NormOf(a) # NormOf(b)
    /\ result.a_components # result.b_components
    /\ ScoredLabels(result) # {}
    /\ result.score \notin {0, 1000}
    /\ result.breakdown["full_fuzzy"] \notin {0, 1000}

\* C4: absence: when at least one input is absent, empty or whitespace-only,
\* address_similarity returns score 0.0 in either argument order, whatever
\* the other input and its parse are.
C4_AbsenceScoresZero ==
    /\ (Compared /\ (BlankInput(a) \/ BlankInput(b))) => result.score = 0
    /\ (pc = "compared" /\ (BlankInput(a) \/ BlankInput(b))) => result_rev.score = 0

C4_Witness ==
    /\ pc = "compared"
    /\ BlankInput(a) /\ ~BlankInput(b)
    /\ PresentLabels(result) # {}
    /\ result.score = 0

\* The weighted mean of the scored labels' similarities, from keys on.
RECURSIVE ClaimWeighted(_, _)
ClaimWeighted(r, keys) ==
    IF keys = {} THEN Zero
    ELSE LET k == CHOOSE x \in keys : TRUE
         IN  RAdd(RMul(Rat(weights[k], 100),
                       LabelScore(r.a_components, r.b_components, k)),
                  ClaimWeighted(r, keys \ {k}))

RECURSIVE ClaimWeight(_)
ClaimWeight(keys) ==
    IF keys = {} THEN Zero
    ELSE LET k == CHOOSE x \in keys : TRUE
         IN  RAdd(Rat(weights[k], 100), ClaimWeight(keys \ {k}))

\* componentSimilarity * weightSum(scored) / weightSum(present)
ClaimComponentScore(r) ==
    LET scored == ScoredLabels(r)
    IN  IF scored = {} THEN Zero
        ELSE RMul(RDiv(ClaimWeighted(r, scored), ClaimWeight(scored)),
                  RDiv(ClaimWeight(scored), ClaimWeight(PresentLabels(r))))

\* C5: coverage penalty: when a weighted label is scored and another weighted
\* label has a value on a side but is not scored, component_score and score
\* are below 1.0; component_score is always componentSimilarity times
\* weightSum(scored labels) / weightSum(labels present on either side).
C5_CoveragePenalty ==
    Compared =>
        /\ result.breakdown["component_score"] = Round3(ClaimComponentScore(result))
        /\ (ScoredLabels(result) # {} /\ PresentLabels(result) \ ScoredLabels(result) # {})
              => /\ result.breakdown["component_score"] < 1000
                 /\ result.score < 1000

C5_Witness ==
    /\ Compared
    /\ ScoredLabels(result) # {}
    /\ \A k \in ScoredLabels(result) : result.breakdown[k] = 1000
    /\ "city" \in PresentLabels(result) \ ScoredLabels(result)
    /\ result.breakdown["component_score"] < 1000

\* C6: road-noise guard: when both sides have a road and one of the two has
\* at most 3 characters, "road" is not in the breakdown and component_score
\* is that of the pair with the road removed from both sides.
C6_RoadNoiseGuard ==
    (/\ Compared
     /\ Get(result.a_components, "road") # << >>
     /\ Get(result.b_components, "road") # << >>
     /\ (Len(result.a_components["road"]) <= 3 \/ Len(result.b_components["road"]) <= 3))
        => /\ "road" \notin DOMAIN result.breakdown
           /\ result.breakdown["component_score"] =
                 Round3(ComponentScore(Without(result.a_components, "road"),
                                       Without(result.b_components, "road")))

\* The information level as the claim states it.
ClaimLevel(s) ==
    IF WordRuns(s) = 0 THEN 0
    ELSE IF HasDigit(s) THEN 2
    ELSE IF WordRuns(s) = 1 THEN 1
    ELSE IF WordRuns(s) <= 3 THEN 2
    ELSE 3

\* C7: low-information shrinkage: w_fuzzy is 0.05 exactly when one normalized
\* input has information level at most 1 (empty, or one token without a digit)
\* and 0.15 otherwise; info_level is 0, 1, 2, 3 as the claim lists; the score
\* is round((1 - w_fuzzy) * component_score + w_fuzzy * full_fuzzy, 3); two
\* single-word inputs with no label scored score below 0.3.
C7_LowInformationShrinkage ==
    Compared =>
        LET an == NormOf(a)
            bn == NormOf(b)
            low == ClaimLevel(an) <= 1 \/ ClaimLevel(bn) <= 1
            w == IF low THEN Rat(5, 100) ELSE Rat(15, 100)
        IN  /\ info_level(Some(an)) = ClaimLevel(an)
            /\ info_level(Some(bn)) = ClaimLevel(bn)
            /\ result.breakdown["w_fuzzy"] = IF low THEN 50 ELSE 150
            /\ result.score =
                  Round3(RAdd(RMul(RSub(One, w),
                                   ComponentScore(result.a_components, result.b_components)),
                              RMul(w, FullFuzzyTable[<<a, b>>])))
            /\ (ClaimLevel(an) = 1 /\ ClaimLevel(bn) = 1 /\ ScoredLabels(result) = {})
                  => result.score < 300

C7_Witness ==
    /\ Compared
    /\ NormOf(a) = T_korea /\ NormOf(b) = T_porto
    /\ ScoredLabels(result) = {}
    /\ result.breakdown["w_fuzzy"] = 50
    /\ result.breakdown["full_fuzzy"] > 300
    /\ result.score > 0 /\ result.score < 300

\* C8: _normalize is idempotent on every input, and an absent or
\* all-whitespace input yields the empty string.
C8_NormalizeIdempotent ==
    /\ (Len(hist) >= 2 /\ BlankInput(hist[1])) => hist[2] = Some(<< >>)
    /\ Len(hist) = 3 => hist[3] = hist[2]

C8_Witness ==
    /\ Len(hist) = 3
    /\ hist[1].some /\ hist[2].val # hist[1].val
    /\ \E i \in DOMAIN hist[2].val : hist[2].val[i] = ","
    /\ \E i \in DOMAIN hist[1].val : hist[1].val[i] \in {"EACUTE", "EMDASH", "FWA", "."}

\* The first index of full_addresses whose similarity to the query is maximal.
ClaimBestIndex(q, fa) ==
    LET sc(i) == SequenceRatio(normalize(Some(q)), normalize(Some(fa[i])))
    IN  CHOOSE i \in DOMAIN fa :
            /\ \A j \in DOMAIN fa : ~RLess(sc(i), sc(j))
            /\ \A j \in 1..(i - 1) : RLess(sc(j), sc(i))

\* C9: best-of-N selection: with at least one candidate, geocode_best_match
\* returns the candidate whose similarity to the query is maximal, the first
\* of them in the candidate sequence on a tie.
C9_BestOfN ==
    (pc = "geocoded" /\ response.ok /\ FullAddresses(response.features) # << >>)
        => LET fa == FullAddresses(response.features)
           IN  best = Some(fa[ClaimBestIndex(query, fa)])

\* The cleanup as the claim states it.
ClaimClean(h) ==
    LET t == Strip(h)
        toks == Split(t)
    IN  IF Len(toks) <= 1 THEN t
        ELSE IF \E i \in 2..Len(toks) :
                   /\ \A j \in DOMAIN toks[i] : toks[i][j] \in DigitChars
                   /\ Len(toks[i]) \in 3..5
             THEN toks[1]
        ELSE t

\* C10: house-number cleanup: _clean_house_number returns the trimmed input
\* with 0 or 1 tokens, the first token when a later token is 3 to 5 digits,
\* and the trimmed input otherwise; address_similarity scores house_number on
\* the cleaned values of both sides.
C10_HouseNumberCleanup ==
    /\ pc = "cleaned" => cleaned = ClaimClean(hn)
    /\ (/\ Compared
        /\ Get(result.a_components, "house_number") # << >>
        /\ Get(result.b_components, "house_number") # << >>)
          => LET va == ClaimClean(result.a_components["house_number"])
                 vb == ClaimClean(result.b_components["house_number"])
             IN  /\ "house_number" \in DOMAIN result.breakdown
                 /\ result.breakdown["house_number"] =
                       IF va = vb THEN 1000 ELSE Round3(fuzzy(va, vb))

C10_Witness ==
    /\ Compared
    /\ Get(result.a_components, "house_number") = <<"1","2"," ","1","0","1","4">>
    /\ Get(result.b_components, "house_number") = <<"1","2">>
    /\ result.breakdown["house_number"] = 1000

====
